---- MODULE Spec2Model ----
(***************************************************************************)
(* Temperature aggregator of api-temperatura-brasil (src/main.py):         *)
(* the TTL cache temp_cache guarded by _temp_lock, the batched Open-Meteo  *)
(* fetch, _get_temps_for_cities, the hottest-first sort of api_cities and  *)
(* the worker-pool fan-out variant built on _get_temp_cached.              *)
(*                                                                         *)
(* Python lists are sequences; Python's 0-based index i is i + 1 here.     *)
(* A reading (float | None) is a record [some, v]; temperatures are whole  *)
(* degrees. A dict with a missing key is a record with a smaller DOMAIN.   *)
(***************************************************************************)
EXTENDS Integers, Sequences, FiniteSets, TLC

\* ------------------------------------------------------------------ bounds
MaxTicks == 3          \* the clock stops after this many ticks
MaxExtra == 1          \* an upstream array is at most this much longer than the request
MaxBatchSize == 2      \* the spec's maxBatchSize; the code has no such setting

\* ------------------------------------------------------- program constants
TEMP_CACHE_TTL_SECONDS == 120
MAX_WORKERS == 12

Threads == {1, 2}
TickSeconds == TEMP_CACHE_TTL_SECONDS \div 2
MaxClock == MaxTicks * TickSeconds
CityIds == {1, 2, 3}
PairIds == {1, 2}
Temps == {-5, 0}
UF == "SP"

\* ---------------------------------------------------------------- readings
None == [some |-> FALSE, v |-> 0]
Float(x) == [some |-> TRUE, v |-> x]
Readings == {None} \cup {Float(x) : x \in Temps}

\* ------------------------------------------------------------ city records
CityKeys == {"id", "nome", "lat", "lon", "pop"}
Nomes == <<"Sao Paulo", "Campinas", "Santos", "Sorocaba", "Osasco">>
City(k) ==
    [id |-> k, nome |-> Nomes[k], lat |-> -20 - k, lon |-> -40 - k, pop |-> 1000 - k]
DropKey(c, key) == [f \in (DOMAIN c) \ {key} |-> c[f]]
HasKey(c, key) == key \in DOMAIN c

\* duplicate-free lists of city ids: GeoNames ids are unique, and
\* api_cities passes a slice of one state's list
DistinctSeqs(S) ==
    {s \in UNION {[1..m -> S] : m \in 0..Cardinality(S)} :
        \A i, j \in 1..Len(s) : i < j => s[i] # s[j]}

\* -------------------------------------------------------- upstream payloads
\* one entry of the JSON array current.temperature_2m: a number, null, or a
\* value float() rejects
JNum(x) == [tag |-> "num", v |-> x]
JNull == [tag |-> "null", v |-> 0]
JStr == [tag |-> "str", v |-> 0]
JsonOk == {JNull} \cup {JNum(x) : x \in Temps}

\* what one GET of the forecast endpoint can come to
FailKinds == {"transport", "status", "badjson", "notdict"}
Resp(kind, temps) == [kind |-> kind, temps |-> temps]
Responses(m) ==
    {Resp(k, <<>>) : k \in FailKinds \cup {"nocurrent"}}
    \cup {Resp("scalar", <<e>>) : e \in {JStr} \cup {JNum(x) : x \in Temps}}
    \cup {Resp("list", l) : l \in UNION {[1..k -> JsonOk] : k \in 0..(m + MaxExtra)}}
    \cup {Resp("list", l) : l \in {<<JStr>>, <<JNum(0), JStr>>}}
\* the answers the concurrent specification draws from: a failure, or a full list
ZeroResponses(m) ==
    {Resp("transport", <<>>)} \cup {Resp("list", l) : l \in [1..m -> {JNum(0)}]}
\* a failure, or a list no longer than the request
BatchResponses(m) ==
    {Resp("transport", <<>>)}
    \cup {Resp("list", l) : l \in UNION {[1..k -> JsonOk] : k \in 0..m}}
\* a failure, or a full list of numbers
NumberResponses(m) ==
    {Resp("transport", <<>>)} \cup {Resp("list", l) : l \in [1..m -> {JNum(x) : x \in Temps}]}
\* the answers each specification draws from
AnswerSet(mode, m) ==
    CASE mode = "any" -> Responses(m)
      [] mode = "short" -> BatchResponses(m)
      [] mode = "numbers" -> NumberResponses(m)
      [] OTHER -> ZeroResponses(m)
NoResp == Resp("none", <<>>)

AllNone(n) == [i \in 1..n |-> None]

\* line 240: [None if t is None else float(t) for t in temps]
ConvertList(temps) ==
    [i \in 1..Len(temps) |-> IF temps[i].tag = "null" THEN None ELSE Float(temps[i].v)]

\* float(t) raises on a non-numeric entry, inside the try
FloatRaises(temps) == \E i \in 1..Len(temps) : temps[i].tag = "str"

ExceptResultZero(n) == [i \in 1..n |-> Float(0)]
\* line 246-247: except Exception: return [None] * len(latlons)
ExceptResult(n) == AllNone(n)

\* _fetch_temps_batch_open_meteo, lines 232-247, given the upstream's answer
FetchResult(latlons, resp) ==
    LET n == Len(latlons)
    IN  IF resp.kind \in FailKinds THEN ExceptResult(n)
        ELSE IF resp.kind = "nocurrent" THEN AllNone(n)
        ELSE IF FloatRaises(resp.temps) THEN ExceptResult(n)
        ELSE IF resp.kind = "list" THEN ConvertList(resp.temps)
        ELSE <<Float(resp.temps[1].v)>> \o AllNone(n - 1)

BatchRequestsPerRecord(latlons) == [i \in 1..Len(latlons) |-> <<latlons[i]>>]
\* lines 220-233: no request for an empty list, else one GET carrying every
\* coordinate; the value is the list of requests issued
BatchRequests(latlons) == IF latlons = <<>> THEN <<>> ELSE <<latlons>>

\* --------------------------------------------------------------- the cache
IsFreshSwapped(now_, ts) == (ts - now_) < TEMP_CACHE_TTL_SECONDS
IsFreshInverted(now_, ts) == (now_ - ts) > TEMP_CACHE_TTL_SECONDS
\* line 266: (now - ts) < TEMP_CACHE_TTL_SECONDS
IsFresh(now_, ts) == (now_ - ts) < TEMP_CACHE_TTL_SECONDS

Entry(temp, ts) == [temp |-> temp, ts |-> ts]

\* lines 264-268: the entry exists and is fresh
CacheHit(cache, cid, now_) == cid \in DOMAIN cache /\ IsFresh(now_, cache[cid].ts)

\* temp_cache[cid] = (temp, now)
CachePut(cache, cid, e) == [k \in (DOMAIN cache) \cup {cid} |-> IF k = cid THEN e ELSE cache[k]]

\* ------------------------------------------- _get_temps_for_cities, phase 1
\* lines 262-271, from index i on; raised is the KeyError of a missing key
RECURSIVE ReadLoop(_, _, _, _, _)
ReadLoop(cs, cache, now_, i, acc) ==
    IF i > Len(cs) THEN acc
    ELSE LET c == cs[i]
         IN  IF ~HasKey(c, "id") THEN [acc EXCEPT !.raised = TRUE]
             ELSE IF CacheHit(cache, c.id, now_)
                  THEN ReadLoop(cs, cache, now_, i + 1,
                                [acc EXCEPT !.results[i] = cache[c.id].temp])
             ELSE IF ~HasKey(c, "lat") \/ ~HasKey(c, "lon")
                  THEN [acc EXCEPT !.raised = TRUE]
             ELSE ReadLoop(cs, cache, now_, i + 1,
                           [acc EXCEPT !.to_fetch = Append(@, <<c.lat, c.lon>>),
                                       !.to_fetch_idx = Append(@, i)])

\* ------------------------------------------- _get_temps_for_cities, phase 3
PickTempClamped(fetched_, j) ==
    IF fetched_ = <<>> THEN None
    ELSE IF j <= Len(fetched_) THEN fetched_[j] ELSE fetched_[Len(fetched_)]
\* line 281: fetched[j] if j < len(fetched) else None
PickTemp(fetched_, j) == IF j <= Len(fetched_) THEN fetched_[j] ELSE None

\* lines 278-283, from position j of to_fetch_idx on
RECURSIVE WriteLoop(_, _, _, _, _, _)
WriteLoop(cs, idx, fetched_, now_, j, acc) ==
    IF j > Len(idx) THEN acc
    ELSE LET i == idx[j]
             temp == PickTemp(fetched_, j)
         IN  WriteLoop(cs, idx, fetched_, now_, j + 1,
                       [cache |-> CachePut(acc.cache, cs[i].id, Entry(temp, now_)),
                        results |-> [acc.results EXCEPT ![i] = temp],
                        nwrites |-> acc.nwrites + 1])

\* ------------------------------------------- _get_temps_for_cities, phase 4
\* lines 288-297: one dict per city
OutItem(c, temp) ==
    [id |-> c.id, cidade |-> c.nome, uf |-> "None", habitantes |-> c.pop,
     lat |-> c.lat, lon |-> c.lon, temperatura |-> temp, unidade |-> "C"]

BuildOutFetchedOnly(cs, res, idx) == [j \in 1..Len(idx) |-> OutItem(cs[idx[j]], res[idx[j]])]
\* lines 286-298
BuildOut(cs, res, idx) == [i \in 1..Len(cs) |-> OutItem(cs[i], res[i])]

\* the dict literal of lines 288-297 reads all five keys of every city
BuildRaises(cs) == \E i \in 1..Len(cs) : \E k \in CityKeys : ~HasKey(cs[i], k)

\* ------------------------------------------------------ api_cities, line 481
\* x["temperatura"] or -9999: None and 0.0 are both falsy
OrDefault(temp) == IF temp.some /\ temp.v # 0 THEN temp.v ELSE -9999
\* key=lambda x: (x["temperatura"] is None, -(x["temperatura"] or -9999))
SortKey(x) == <<IF x.temperatura.some THEN 0 ELSE 1, -OrDefault(x.temperatura)>>
KeyLess(a, b) == a[1] < b[1] \/ (a[1] = b[1] /\ a[2] < b[2])

\* list.sort is stable: x goes after every element whose key is not greater
RECURSIVE InsertSorted(_, _)
InsertSorted(s, x) ==
    IF s = <<>> THEN <<x>>
    ELSE IF KeyLess(SortKey(x), SortKey(s[1])) THEN <<x>> \o s
    ELSE <<s[1]>> \o InsertSorted(Tail(s), x)

RECURSIVE SortData(_)
SortData(s) ==
    IF s = <<>> THEN <<>>
    ELSE InsertSorted(SortData(SubSeq(s, 1, Len(s) - 1)), s[Len(s)])

\* lines 478-481: set uf on every item, then sort
ApiData(out_) == SortData([i \in 1..Len(out_) |-> [out_[i] EXCEPT !.uf = UF]])

\* ------------------------------------------------------------------- state
VARIABLES
    clock,          \* time.time()
    temp_cache,     \* temp_cache: id -> (temp, ts); DOMAIN = the ids present
    lock,           \* holder of _temp_lock: 0 free, t a caller, -k a pool task
    prev,           \* history: per id, what the last finished call returned
    pc,             \* per caller: position in _get_temps_for_cities
    cities,         \* per caller: the argument
    now,            \* per caller: local now
    results,        \* per caller: local results
    to_fetch,       \* per caller: local to_fetch
    to_fetch_idx,   \* per caller: local to_fetch_idx
    fetched,        \* per caller: local fetched
    resp,           \* per caller: the upstream's answer to its request
    reqlog,         \* per caller: the upstream requests it has issued
    nwrites,        \* per caller: assignments to temp_cache it has made
    out,            \* per caller: the list returned
    data,           \* per caller: api_cities' sorted data
    fpc,            \* fan-out variant: position of the calling thread
    fcities,        \* fan-out variant: the argument
    fresults,       \* fan-out variant: local results
    tpc,            \* per pool task: position in _get_temp_cached
    tnow,           \* per pool task: local now
    ttemp           \* per pool task: local temp, the future's result

shared == <<clock, temp_cache, lock, prev>>
locals == <<pc, cities, now, results, to_fetch, to_fetch_idx, fetched, resp,
            reqlog, nwrites, out, data>>
fan == <<fpc, fcities, fresults, tpc, tnow, ttemp>>
vars == <<shared, locals, fan>>

NoPrev == [set |-> FALSE, temp |-> None, at |-> 0, ts |-> 0]

\* the inputs of each specification
WellFormed == {[i \in 1..Len(s) |-> City(s[i])] : s \in DistinctSeqs(PairIds)}
\* api_cities: a slice [:limit] of one state's list
Slices == {<<>>, <<City(1)>>, <<City(1), City(2)>>}
Slices3 == Slices \cup {<<City(1), City(2), City(3)>>}
Malformed ==
    {[cs EXCEPT ![i] = DropKey(cs[i], k)] :
        cs \in WellFormed \ {<<>>}, i \in PairIds, k \in CityKeys}

Init ==
    /\ clock = 0
    /\ temp_cache = <<>>
    /\ lock = 0
    /\ prev = [k \in CityIds |-> NoPrev]
    /\ pc = [t \in Threads |-> "idle"]
    /\ cities = [t \in Threads |-> <<>>]
    /\ now = [t \in Threads |-> 0]
    /\ results = [t \in Threads |-> <<>>]
    /\ to_fetch = [t \in Threads |-> <<>>]
    /\ to_fetch_idx = [t \in Threads |-> <<>>]
    /\ fetched = [t \in Threads |-> <<>>]
    /\ resp = [t \in Threads |-> NoResp]
    /\ reqlog = [t \in Threads |-> <<>>]
    /\ nwrites = [t \in Threads |-> 0]
    /\ out = [t \in Threads |-> <<>>]
    /\ data = [t \in Threads |-> <<>>]
    /\ fpc = "idle"
    /\ fcities = <<>>
    /\ fresults = <<>>
    /\ tpc = <<>>
    /\ tnow = <<>>
    /\ ttemp = <<>>

\* the wall clock moves on between any two steps
Tick(maxclock) ==
    /\ clock + TickSeconds <= maxclock
    /\ clock' = clock + TickSeconds
    /\ UNCHANGED <<temp_cache, lock, prev, locals, fan>>

\* history: fold the finished call of caller t into prev
Remember(t, track) ==
    IF ~track \/ pc[t] # "done" THEN prev
    ELSE [k \in CityIds |->
            IF \E i \in 1..Len(out[t]) : out[t][i].id = k
            THEN LET i == CHOOSE i \in 1..Len(out[t]) : out[t][i].id = k
                 IN  [set |-> TRUE, temp |-> out[t][i].temperatura, at |-> now[t],
                      ts |-> temp_cache[k].ts]
            ELSE prev[k]]

\* lines 254-259: a call starts, samples the clock, sets up its locals
Begin(t, inputs, track) ==
    /\ pc[t] \in {"idle", "done", "raised"}
    /\ \E cs \in inputs :
          /\ cities' = [cities EXCEPT ![t] = cs]
          /\ results' = [results EXCEPT ![t] = AllNone(Len(cs))]
    /\ now' = [now EXCEPT ![t] = clock]
    /\ prev' = Remember(t, track)
    /\ to_fetch' = [to_fetch EXCEPT ![t] = <<>>]
    /\ to_fetch_idx' = [to_fetch_idx EXCEPT ![t] = <<>>]
    /\ fetched' = [fetched EXCEPT ![t] = <<>>]
    /\ resp' = [resp EXCEPT ![t] = NoResp]
    /\ reqlog' = [reqlog EXCEPT ![t] = <<>>]
    /\ nwrites' = [nwrites EXCEPT ![t] = 0]
    /\ out' = [out EXCEPT ![t] = <<>>]
    /\ data' = [data EXCEPT ![t] = <<>>]
    /\ pc' = [pc EXCEPT ![t] = "acq1"]
    /\ UNCHANGED <<fan, clock, temp_cache, lock>>

ReleaseKept(holder) == holder
\* leaving a `with _temp_lock:` block, normally or by an exception
Release(holder) == 0

\* line 261: with _temp_lock (blocks while another holds it)
AcquireRead(t) ==
    /\ pc[t] = "acq1"
    /\ lock = 0
    /\ lock' = t
    /\ pc' = [pc EXCEPT ![t] = "read"]
    /\ UNCHANGED <<fan, clock, temp_cache, prev, cities, now, results, to_fetch,
                   to_fetch_idx, fetched, resp, reqlog, nwrites, out, data>>

\* lines 262-271 under the lock, then the lock is released
ReadPhase(t) ==
    /\ pc[t] = "read"
    /\ LET r == ReadLoop(cities[t], temp_cache, now[t], 1,
                         [results |-> results[t], to_fetch |-> <<>>,
                          to_fetch_idx |-> <<>>, raised |-> FALSE])
       IN  /\ results' = [results EXCEPT ![t] = r.results]
           /\ to_fetch' = [to_fetch EXCEPT ![t] = r.to_fetch]
           /\ to_fetch_idx' = [to_fetch_idx EXCEPT ![t] = r.to_fetch_idx]
           /\ pc' = [pc EXCEPT ![t] = IF r.raised THEN "raised" ELSE "fetch"]
    /\ lock' = Release(t)
    /\ UNCHANGED <<fan, clock, temp_cache, prev, cities, now, fetched, resp, reqlog,
                   nwrites, out, data>>

\* line 274, lines 220-233: the request goes out, unless nothing is to fetch
Fetch(t) ==
    /\ pc[t] = "fetch"
    /\ reqlog' = [reqlog EXCEPT ![t] = BatchRequests(to_fetch[t])]
    /\ pc' = [pc EXCEPT ![t] = IF to_fetch[t] = <<>> THEN "acq2" ELSE "inflight"]
    /\ UNCHANGED <<fan, shared, cities, now, results, to_fetch, to_fetch_idx, fetched,
                   resp, nwrites, out, data>>

\* lines 233-247: the upstream answers, fails or times out
Response(t, mode) ==
    /\ pc[t] = "inflight"
    /\ \E r \in AnswerSet(mode, Len(to_fetch[t])) :
          /\ resp' = [resp EXCEPT ![t] = r]
          /\ fetched' = [fetched EXCEPT ![t] = FetchResult(to_fetch[t], r)]
    /\ pc' = [pc EXCEPT ![t] = "acq2"]
    /\ UNCHANGED <<fan, shared, cities, now, results, to_fetch, to_fetch_idx, reqlog,
                   nwrites, out, data>>

\* line 277: with _temp_lock
AcquireWrite(t) ==
    /\ pc[t] = "acq2"
    /\ lock = 0
    /\ lock' = t
    /\ pc' = [pc EXCEPT ![t] = "write"]
    /\ UNCHANGED <<fan, clock, temp_cache, prev, cities, now, results, to_fetch,
                   to_fetch_idx, fetched, resp, reqlog, nwrites, out, data>>

\* lines 278-283 under the lock, then the lock is released
WritePhase(t) ==
    /\ pc[t] = "write"
    /\ LET w == WriteLoop(cities[t], to_fetch_idx[t], fetched[t], now[t], 1,
                          [cache |-> temp_cache, results |-> results[t],
                           nwrites |-> nwrites[t]])
       IN  /\ temp_cache' = w.cache
           /\ results' = [results EXCEPT ![t] = w.results]
           /\ nwrites' = [nwrites EXCEPT ![t] = w.nwrites]
    /\ lock' = Release(t)
    /\ pc' = [pc EXCEPT ![t] = "build"]
    /\ UNCHANGED <<fan, clock, prev, cities, now, to_fetch, to_fetch_idx, fetched, resp,
                   reqlog, out, data>>

\* lines 286-298, then api_cities lines 478-481 on the list returned
Build(t) ==
    /\ pc[t] = "build"
    /\ IF BuildRaises(cities[t])
       THEN /\ pc' = [pc EXCEPT ![t] = "raised"]
            /\ UNCHANGED <<fan, out, data>>
       ELSE /\ pc' = [pc EXCEPT ![t] = "done"]
            /\ out' = [out EXCEPT ![t] = BuildOut(cities[t], results[t], to_fetch_idx[t])]
            /\ data' = [data EXCEPT ![t] =
                           ApiData(BuildOut(cities[t], results[t], to_fetch_idx[t]))]
    /\ UNCHANGED <<fan, shared, cities, now, results, to_fetch, to_fetch_idx, fetched,
                   resp, reqlog, nwrites>>

Step(t, inputs, mode, track) ==
    \/ Begin(t, inputs, track)
    \/ AcquireRead(t)
    \/ ReadPhase(t)
    \/ Fetch(t)
    \/ Response(t, mode)
    \/ AcquireWrite(t)
    \/ WritePhase(t)
    \/ Build(t)

\* concurrent callers (FastAPI runs the sync endpoint on a thread pool)
Next == Tick(TEMP_CACHE_TTL_SECONDS) \/ \E t \in Threads : Step(t, Slices, "zero", FALSE)
Spec == Init /\ [][Next]_vars

\* one caller at a time
NextSeq == Tick(MaxClock) \/ Step(1, WellFormed, "any", FALSE)
SpecSeq == Init /\ [][NextSeq]_vars

\* one caller whose argument may hold a record with a missing key
NextBad == Tick(TickSeconds) \/ Step(1, Malformed, "zero", FALSE)

\* one caller at a time on slices of a list of three cities
NextBatch == Tick(MaxClock) \/ Step(1, Slices3, "short", FALSE)
SpecBatch == Init /\ [][NextBatch]_vars

\* one caller at a time, with the history of what earlier calls returned
NextTTL == Tick(MaxClock) \/ Step(1, WellFormed, "numbers", TRUE)
SpecTTL == Init /\ [][NextTTL]_vars
SpecBad == Init /\ [][NextBad]_vars

\* ------------------------------------------------ the fan-out variant
\* lines 416-440 with _get_temp_cached (lines 311-330) and
\* _fetch_temp_open_meteo (lines 299-309); task k serves cities[k]
Tasks == 1..Len(fcities)
TaskIds == 1..Cardinality(PairIds)
Running == {k \in Tasks : tpc[k] \notin {"queued", "finished", "collected"}}

\* what one single-city fetch comes to: the exception is caught (lines 322-325)
SingleAnswers == {[raises |-> TRUE, value |-> None]}
                 \cup {[raises |-> FALSE, value |-> r] : r \in Readings}
SingleTemp(a) == IF a.raises THEN None ELSE a.value

\* lines 418-420: results = [], every city submitted to the pool
FanBegin ==
    /\ fpc \in {"idle", "done"}
    /\ \E cs \in WellFormed :
          /\ fcities' = cs
          /\ tpc' = [k \in 1..Len(cs) |-> "queued"]
          /\ tnow' = [k \in 1..Len(cs) |-> 0]
          /\ ttemp' = [k \in 1..Len(cs) |-> None]
    /\ fresults' = <<>>
    /\ fpc' = "collect"
    /\ UNCHANGED <<shared, locals>>

\* a free worker takes the next task off the pool's FIFO queue; lines 312-313
TaskStart(k) ==
    /\ k \in Tasks
    /\ tpc[k] = "queued"
    /\ \A j \in 1..(k - 1) : tpc[j] # "queued"
    /\ Cardinality(Running) < MAX_WORKERS
    /\ tnow' = [tnow EXCEPT ![k] = clock]
    /\ tpc' = [tpc EXCEPT ![k] = "acq1"]
    /\ UNCHANGED <<shared, locals, fpc, fcities, fresults, ttemp>>

\* line 315: with _temp_lock
TaskAcquireRead(k) ==
    /\ k \in Tasks
    /\ tpc[k] = "acq1"
    /\ lock = 0
    /\ lock' = -k
    /\ tpc' = [tpc EXCEPT ![k] = "check"]
    /\ UNCHANGED <<clock, temp_cache, prev, locals, fpc, fcities, fresults, tnow, ttemp>>

\* lines 316-323: a fresh entry is returned, else the request goes out
TaskCheck(k) ==
    /\ k \in Tasks
    /\ tpc[k] = "check"
    /\ IF CacheHit(temp_cache, fcities[k].id, tnow[k])
       THEN /\ ttemp' = [ttemp EXCEPT ![k] = temp_cache[fcities[k].id].temp]
            /\ tpc' = [tpc EXCEPT ![k] = "finished"]
       ELSE /\ tpc' = [tpc EXCEPT ![k] = "inflight"]
            /\ UNCHANGED ttemp
    /\ lock' = Release(-k)
    /\ UNCHANGED <<clock, temp_cache, prev, locals, fpc, fcities, fresults, tnow>>

\* lines 322-325: the upstream answers, or the exception is swallowed
TaskResponse(k) ==
    /\ k \in Tasks
    /\ tpc[k] = "inflight"
    /\ \E a \in SingleAnswers : ttemp' = [ttemp EXCEPT ![k] = SingleTemp(a)]
    /\ tpc' = [tpc EXCEPT ![k] = "acq2"]
    /\ UNCHANGED <<shared, locals, fpc, fcities, fresults, tnow>>

\* line 327: with _temp_lock
TaskAcquireWrite(k) ==
    /\ k \in Tasks
    /\ tpc[k] = "acq2"
    /\ lock = 0
    /\ lock' = -k
    /\ tpc' = [tpc EXCEPT ![k] = "write"]
    /\ UNCHANGED <<clock, temp_cache, prev, locals, fpc, fcities, fresults, tnow, ttemp>>

\* lines 328-330
TaskWrite(k) ==
    /\ k \in Tasks
    /\ tpc[k] = "write"
    /\ temp_cache' = CachePut(temp_cache, fcities[k].id, Entry(ttemp[k], tnow[k]))
    /\ lock' = Release(-k)
    /\ tpc' = [tpc EXCEPT ![k] = "finished"]
    /\ UNCHANGED <<clock, prev, locals, fpc, fcities, fresults, tnow, ttemp>>

\* lines 421-438: as_completed yields a finished future; its dict is appended
Collect(k) ==
    /\ fpc = "collect"
    /\ k \in Tasks
    /\ tpc[k] = "finished"
    /\ fresults' = Append(fresults, OutItem(fcities[k], ttemp[k]))
    /\ tpc' = [tpc EXCEPT ![k] = "collected"]
    /\ UNCHANGED <<shared, locals, fpc, fcities, tnow, ttemp>>

\* line 440: every future has been yielded
FanReturn ==
    /\ fpc = "collect"
    /\ \A k \in Tasks : tpc[k] = "collected"
    /\ fpc' = "done"
    /\ UNCHANGED <<shared, locals, fcities, fresults, tpc, tnow, ttemp>>

FanStep(k) ==
    \/ TaskStart(k)
    \/ TaskAcquireRead(k)
    \/ TaskCheck(k)
    \/ TaskResponse(k)
    \/ TaskAcquireWrite(k)
    \/ TaskWrite(k)
    \/ Collect(k)

NextFan == Tick(MaxClock) \/ FanBegin \/ FanReturn \/ \E k \in TaskIds : FanStep(k)
SpecFan == Init /\ [][NextFan]_vars

\* ================================================================== claims
LatLon(c) == <<c.lat, c.lon>>
Returned(t) == pc[t] = "done"
\* the call of caller t has passed line 274 and not yet written the cache
Fetching(t) == pc[t] \in {"inflight", "acq2", "write"}
\* some request issued by caller t carries the coordinates of city c
Requested(t, c) ==
    \E r \in 1..Len(reqlog[t]) : \E j \in 1..Len(reqlog[t][r]) : reqlog[t][r][j] = LatLon(c)

\* C1: a call that returns gives exactly one result per input record, and the
\* result at position i carries the id of the input record at position i,
\* whatever the cache held and whatever the upstream answered.
C1_SameLengthSameOrder ==
    \A t \in Threads :
        Returned(t) =>
            /\ Len(out[t]) = Len(cities[t])
            /\ \A i \in 1..Len(cities[t]) : out[t][i].id = cities[t][i].id

\* C1 witness: a call on [city 2, city 1] returned, one record served from the
\* cache and one fetched, the upstream array longer than the request.
C1_Witness ==
    /\ Returned(1)
    /\ Len(cities[1]) = 2 /\ cities[1][1].id = 2
    /\ Len(to_fetch_idx[1]) = 1
    /\ resp[1].kind = "list" /\ Len(resp[1].temps) > Len(to_fetch[1])

\* C2: while a call is between its read phase and its write phase, a record
\* whose cache entry has now - ts < TTL is in none of its upstream requests, and
\* a record with now - ts > TTL, or with no entry, is in one of them.
C2_FreshSkippedStaleFetched ==
    \A t \in Threads :
        Fetching(t) =>
            \A i \in 1..Len(cities[t]) :
                LET c == cities[t][i]
                    has == c.id \in DOMAIN temp_cache
                IN  /\ (has /\ now[t] - temp_cache[c.id].ts < TEMP_CACHE_TTL_SECONDS)
                          => ~Requested(t, c)
                    /\ (~has \/ now[t] - temp_cache[c.id].ts > TEMP_CACHE_TTL_SECONDS)
                          => Requested(t, c)

\* C2 witness: a request is in flight for a call over two cities, one entry
\* 60 s old (skipped), the other 180 s old (fetched).
C2_Witness ==
    /\ pc[1] = "inflight"
    /\ Len(cities[1]) = 2
    /\ DOMAIN temp_cache = {1, 2}
    /\ now[1] - temp_cache[cities[1][1].id].ts = TickSeconds
    /\ now[1] - temp_cache[cities[1][2].id].ts > TEMP_CACHE_TTL_SECONDS
    /\ reqlog[1] = <<(<<LatLon(cities[1][2])>>)>>

\* C3 as stated: once a call has returned v for X, every later call for X whose
\* clock reading is within the TTL of that call's clock reading returns v.
C3_Original ==
    \A t \in Threads :
        Returned(t) =>
            \A i \in 1..Len(out[t]) :
                LET p == prev[out[t][i].id]
                IN  (p.set /\ now[t] - p.at < TEMP_CACHE_TTL_SECONDS)
                        => out[t][i].temperatura = p.temp

\* C3 amended: with calls running one at a time, once a call has returned v for
\* X, every later call for X whose clock reading is within the TTL of the
\* timestamp of the cache entry that held v (the clock reading of the call that
\* fetched v) returns v.
C3_WithinEntryTTL ==
    \A t \in Threads :
        Returned(t) =>
            \A i \in 1..Len(out[t]) :
                LET p == prev[out[t][i].id]
                IN  (p.set /\ now[t] - p.ts < TEMP_CACHE_TTL_SECONDS)
                        => out[t][i].temperatura = p.temp

\* C3 witness: city 1 was returned as -5 by an earlier call; a call 60 s after
\* the entry was written returns -5 for it again although the upstream, asked
\* for city 2 in the same call, now answers 0.
C3_Witness ==
    /\ Returned(1)
    /\ Len(cities[1]) = 2 /\ cities[1][1].id = 1
    /\ prev[1].set /\ prev[1].temp = Float(-5)
    /\ now[1] - prev[1].ts = TickSeconds
    /\ out[1][1].temperatura = Float(-5)
    /\ resp[1] = Resp("list", <<JNum(0)>>)

\* the batch request failed entirely
Failed(r) == r.kind \in FailKinds \cup {"nocurrent"} \/ FloatRaises(r.temps)

\* C4: when the batch request fails entirely the call does not raise, and when
\* it has returned every record sent in the batch has an absent temperature.
C4_FailureGivesAbsent ==
    \A t \in Threads :
        Failed(resp[t]) =>
            /\ pc[t] # "raised"
            /\ Returned(t) =>
                  \A j \in 1..Len(to_fetch_idx[t]) :
                      out[t][to_fetch_idx[t][j]].temperatura = None

\* C4 witness: a call over two cities, neither served from the cache, returned
\* after a non-2xx answer with both readings absent.
C4_Witness ==
    /\ Returned(1)
    /\ resp[1].kind = "status"
    /\ Len(cities[1]) = 2 /\ Len(to_fetch_idx[1]) = 2
    /\ \A i \in 1..2 : out[1][i].temperatura = None

\* what line 240 makes of one array entry
EntryReading(e) == IF e.tag = "null" THEN None ELSE Float(e.v)

\* C5: when the upstream array has k < m entries, fetched record j <= k gets the
\* reading of entry j and fetched records k+1..m get an absent reading.
C5_ShortArrayAligned ==
    \A t \in Threads :
        (Returned(t) /\ resp[t].kind = "list" /\ ~FloatRaises(resp[t].temps)
            /\ Len(resp[t].temps) < Len(to_fetch[t])) =>
            \A j \in 1..Len(to_fetch_idx[t]) :
                out[t][to_fetch_idx[t][j]].temperatura =
                    IF j <= Len(resp[t].temps) THEN EntryReading(resp[t].temps[j])
                    ELSE None

\* C5 witness: three coordinates requested, the array [-5, 0] returned.
C5_Witness ==
    /\ Returned(1)
    /\ Len(to_fetch[1]) = 3
    /\ resp[1] = Resp("list", <<JNum(-5), JNum(0)>>)
    /\ out[1][1].temperatura = Float(-5)
    /\ out[1][2].temperatura = Float(0)
    /\ out[1][3].temperatura = None

\* C6 as stated: every upstream request of a call carries at most maxBatchSize
\* coordinates, so a call with more records to fetch issues several requests.
C6_Original ==
    \A t \in Threads :
        /\ \A r \in 1..Len(reqlog[t]) : Len(reqlog[t][r]) <= MaxBatchSize
        /\ (pc[t] \in {"inflight", "acq2", "write", "build", "done"}
              /\ Len(to_fetch[t]) > MaxBatchSize) => Len(reqlog[t]) > 1

\* C6 amended: a call issues no request when no record needs a fetch, and
\* otherwise exactly one request carrying the coordinates of every record that
\* needs a fetch, in input order, whatever their number.
C6_OneRequestForAll ==
    \A t \in Threads :
        pc[t] \in {"inflight", "acq2", "write", "build", "done"} =>
            IF to_fetch_idx[t] = <<>> THEN reqlog[t] = <<>>
            ELSE /\ Len(reqlog[t]) = 1
                 /\ reqlog[t][1] = [j \in 1..Len(to_fetch_idx[t]) |->
                                       LatLon(cities[t][to_fetch_idx[t][j]])]

\* C6 witness: a call returned having sent one request with three coordinates.
C6_Witness ==
    /\ Returned(1)
    /\ Len(reqlog[1]) = 1
    /\ Len(reqlog[1][1]) = 3

\* C7: a caller holds _temp_lock only in its read phase and its write phase,
\* never while its upstream request is in flight.
C7_LockNotHeldInFlight ==
    \A t \in Threads :
        /\ pc[t] \in {"fetch", "inflight"} => lock # t
        /\ lock = t => pc[t] \in {"read", "write"}

\* C7 witness: caller 1 holds the lock in its write phase while the request of
\* caller 2 is in flight.
C7_Witness ==
    /\ lock = 1 /\ pc[1] = "write"
    /\ pc[2] = "inflight"

\* C8: a call that raises on a record with a missing key has issued no
\* upstream request and has not modified the cache.
C8_RaisesBeforeEffects ==
    \A t \in Threads :
        pc[t] = "raised" => (reqlog[t] = <<>> /\ nwrites[t] = 0)

\* C9: data is sorted hottest-first: no absent reading precedes a present one,
\* and of two adjacent present readings the earlier is not the smaller.
C9_SortedHottestFirst ==
    \A t \in Threads :
        Returned(t) =>
            \A i \in 1..(Len(data[t]) - 1) :
                LET a == data[t][i].temperatura
                    b == data[t][i + 1].temperatura
                IN  /\ b.some => a.some
                    /\ (a.some /\ b.some) => a.v >= b.v

\* C10: the fan-out variant returns one result per record, the result at
\* position i belonging to the input record at position i.
C10_FanOutInputOrder ==
    fpc = "done" =>
        /\ Len(fresults) = Len(fcities)
        /\ \A i \in 1..Len(fcities) : fresults[i].id = fcities[i].id

\* C11: under any interleaving of concurrent calls the timestamp stored in
\* temp_cache[X] never decreases: no step replaces an entry by one whose
\* timestamp is older.
C11_TimestampNeverDecreases ==
    [][\A k \in DOMAIN temp_cache :
          /\ k \in DOMAIN temp_cache'
          /\ temp_cache'[k].ts >= temp_cache[k].ts]_vars
====
